---- MODULE Spec2Model ----
(***************************************************************************)
(* A model of package minass (src/minass.go): the value assertion chain,   *)
(* the function assertion chain with its promise, and the message          *)
(* formatter.                                                              *)
(*                                                                         *)
(* A Go string is modelled as a sequence of tokens: a token is a piece of  *)
(* literal text or a formatting verb.  A Go value of dynamic type T is a   *)
(* record with the fields kind, b, s, k, ek (see V below).                 *)
(***************************************************************************)
EXTENDS Integers, Sequences, FiniteSets

\* Longest string, byte sequence, slice and reader content that is enumerated.
MaxLen == 2

\* Most caller steps taken between Promise() and Wait()/Timeout().
MaxCallerSteps == 2

Chars == {"a", "b"}

Verbs == {"%s", "%d", "%t", "%v", "%+v", "%T"}

NL == "\n"

RECURSIVE SeqsUpTo(_)
SeqsUpTo(n) ==
    IF n = 0 THEN {<<>>}
    ELSE LET shorter == SeqsUpTo(n - 1)
         IN  shorter \cup {Append(s, c) : s \in {t \in shorter : Len(t) = n - 1}, c \in Chars}

Strs == SeqsUpTo(MaxLen)

----------------------------------------------------------------------------
(* Go values held in an interface{}.                                       *)
(*   kind  the reflect.Kind / dynamic type: "nil" is the nil interface     *)
(*   b     bool: the value; ptr: the pointer is nil; reader: Read fails    *)
(*   s     string, bytes, slice: the elements; map: the values;            *)
(*         reader: the unread content; ptr: the pointee's elements         *)
(*   k     map: the keys, k[i] maps to s[i]                                *)
(*   ek    ptr: the kind of the pointee                                    *)

V(kind, b, s, k, ek) == [kind |-> kind, b |-> b, s |-> s, k |-> k, ek |-> ek]

NoVal == V("none", FALSE, <<>>, <<>>, "none")

NilIface == V("nil", FALSE, <<>>, <<>>, "none")

BoolV(b) == V("bool", b, <<>>, <<>>, "none")

StrV(s) == V("string", FALSE, s, <<>>, "none")

BytesV(s) == V("bytes", FALSE, s, <<>>, "none")

ByteV(c) == V("uint8", FALSE, <<c>>, <<>>, "none")

IntV(c) == V("int", FALSE, <<c>>, <<>>, "none")

SliceV(s) == V("slice", FALSE, s, <<>>, "none")

MapV(k, s) == V("map", FALSE, s, k, "none")

PtrV(isNil, ek, s) == V("ptr", isNil, s, <<>>, ek)

ReaderV(s, fails) == V("reader", fails, s, <<>>, "none")

KeySeqs == {<<>>, <<"a">>, <<"b">>, <<"a", "b">>}

Maps == {MapV(p[1], p[2]) : p \in {q \in KeySeqs \X SeqsUpTo(2) : Len(q[1]) = Len(q[2])}}

Pointers ==
    {PtrV(TRUE, ek, <<>>) : ek \in {"string", "slice"}}
    \cup {PtrV(FALSE, ek, s) : ek \in {"string", "slice"}, s \in SeqsUpTo(1)}

\* The subjects a value chain is constructed with.
Subjects ==
    {NilIface, BoolV(TRUE), BoolV(FALSE), IntV("1")}
    \cup {StrV(s) : s \in Strs}
    \cup {BytesV(s) : s \in Strs}
    \cup {SliceV(s) : s \in Strs}
    \cup Maps
    \cup Pointers
    \cup {ReaderV(s, f) : s \in Strs, f \in BOOLEAN}

\* The expected values and keys given to Equals, Contains and HasKey.
Probes ==
    {NilIface, BoolV(TRUE), IntV("1"), ByteV("a")}
    \cup {StrV(s) : s \in {<<>>, <<"a">>, <<"b">>, <<"a", "b">>}}

\* The trailing message arguments given to a terminal check.
TestMsgs ==
    { <<>>,
      <<StrV(<<>>)>>,
      <<StrV(<<"wanted">>)>>,
      <<StrV(<<"got ", "%v">>), BoolV(TRUE)>>,
      <<IntV("1")>> }

----------------------------------------------------------------------------
(* fmt: type names, value rendering, Sprintf.                              *)

TypeName(v) ==
    CASE v.kind = "nil"    -> <<"<nil>">>
      [] v.kind = "bool"   -> <<"bool">>
      [] v.kind = "string" -> <<"string">>
      [] v.kind = "bytes"  -> <<"[]uint8">>
      [] v.kind = "uint8"  -> <<"uint8">>
      [] v.kind = "int"    -> <<"int">>
      [] v.kind = "slice"  -> <<"[]string">>
      [] v.kind = "map"    -> <<"map[string]string">>
      [] v.kind = "ptr"    -> <<"*", IF v.ek = "slice" THEN "[]string" ELSE v.ek>>
      [] v.kind = "reader" -> <<"*", "Reader">>
      [] v.kind = "struct" -> <<"Reader">>
      [] v.kind = "duration" -> <<"time.Duration">>
      [] OTHER             -> <<"?">>

RECURSIVE Join(_, _)
Join(s, sep) ==
    IF Len(s) = 0 THEN <<>>
    ELSE IF Len(s) = 1 THEN <<s[1]>>
    ELSE <<s[1], sep>> \o Join(Tail(s), sep)

RECURSIVE JoinPairs(_, _)
JoinPairs(k, s) ==
    IF Len(k) = 0 THEN <<>>
    ELSE <<k[1], ":", s[1]>> \o (IF Len(k) = 1 THEN <<>> ELSE <<" ">>) \o JoinPairs(Tail(k), Tail(s))

\* The text fmt prints for a value under %v, %+v and %s.
Show(v) ==
    CASE v.kind = "nil"    -> <<"<nil>">>
      [] v.kind = "bool"   -> <<IF v.b THEN "true" ELSE "false">>
      [] v.kind = "string" -> v.s
      [] v.kind = "bytes"  -> <<"[">> \o Join(v.s, " ") \o <<"]">>
      [] v.kind = "slice"  -> <<"[">> \o Join(v.s, " ") \o <<"]">>
      [] v.kind = "map"    -> <<"map[">> \o JoinPairs(v.k, v.s) \o <<"]">>
      [] v.kind = "ptr"    -> <<IF v.b THEN "<nil>" ELSE "0xc000">>
      [] v.kind = "reader" -> <<"&{">> \o v.s \o <<"}">>
      [] v.kind = "struct" -> <<"{">> \o v.s \o <<"}">>
      [] OTHER             -> v.s

Fmt(verb, v) == IF verb = "%T" THEN TypeName(v) ELSE Show(v)

RECURSIVE Sprintf(_, _)
Sprintf(format, args) ==
    IF format = <<>>
    THEN IF args = <<>> THEN <<>> ELSE <<"%!(EXTRA)">>
    ELSE IF Head(format) \in Verbs
         THEN IF args = <<>>
              THEN <<"%!(MISSING)">> \o Sprintf(Tail(format), args)
              ELSE Fmt(Head(format), Head(args)) \o Sprintf(Tail(format), Tail(args))
         ELSE <<Head(format)>> \o Sprintf(Tail(format), args)

----------------------------------------------------------------------------
(* The assertion context and the message formatter.                        *)

\* What the injected runtimeCaller returns for the caller's frame.
CallerFile == StrV(<<"file_test.go">>)

CallerLine == IntV("123")

newAssertionPrefix == Sprintf(<<"[", "%s", ":", "%d", "]">>, <<CallerFile, CallerLine>>)

\* assertion.message: panics (panic |-> TRUE) when the first trailing
\* argument is not a string.
message(vals) ==
    IF Len(vals) > 0 /\ vals[1].kind # "string"
    THEN [panic |-> TRUE, testMessage |-> <<>>, testArgs |-> <<>>,
          assertionPrefix |-> newAssertionPrefix, assertionMessage |-> <<>>,
          assertionArgs |-> <<>>, assertionMultiline |-> FALSE]
    ELSE [panic |-> FALSE,
          testMessage |-> IF Len(vals) > 0 THEN vals[1].s ELSE <<>>,
          testArgs |-> IF Len(vals) > 0 THEN Tail(vals) ELSE <<>>,
          assertionPrefix |-> newAssertionPrefix, assertionMessage |-> <<>>,
          assertionArgs |-> <<>>, assertionMultiline |-> FALSE]

\* String without the line break between test message and assertion message.
StringNoBreak(m) ==
    IF m.testMessage = <<>> /\ ~m.assertionMultiline
    THEN m.assertionPrefix \o <<" ">> \o Sprintf(m.assertionMessage, m.assertionArgs)
    ELSE m.assertionPrefix
         \o (IF m.testMessage # <<>>
             THEN <<NL>> \o Sprintf(m.testMessage, m.testArgs)
             ELSE <<NL>>)
         \o Sprintf(m.assertionMessage, m.assertionArgs)

String(m) ==
    IF m.testMessage = <<>> /\ ~m.assertionMultiline
    THEN m.assertionPrefix \o <<" ">> \o Sprintf(m.assertionMessage, m.assertionArgs)
    ELSE m.assertionPrefix
         \o (IF m.testMessage # <<>>
             THEN <<NL>> \o Sprintf(m.testMessage, m.testArgs)
             ELSE <<>>)
         \o <<NL>> \o Sprintf(m.assertionMessage, m.assertionArgs)

\* One call of t.Errorf: the message as sent and the string it was given.
errorf(m, format, args) ==
    LET sent == [m EXCEPT !.assertionMessage = format, !.assertionArgs = args]
    IN  [m |-> sent, text |-> String(sent)]

multiLineErrorf(m, format, args) ==
    errorf([m EXCEPT !.assertionMultiline = TRUE], format, args)

----------------------------------------------------------------------------
(* reflect helpers.                                                        *)

\* A *Reader is a pointer too.
reflectIsPointer(v) == v.kind \in {"ptr", "reader"}

reflectIsNil(v) == v.kind = "ptr" /\ v.b

reflectElem(v) ==
    IF v.kind = "reader" THEN V("struct", FALSE, v.s, <<>>, "none")
    ELSE V(IF v.ek = "string" THEN "string" ELSE v.ek, FALSE, v.s, <<>>, "none")

\* container.Index(i).Interface()
Index(c, i) == IF c.kind = "bytes" THEN ByteV(c.s[i]) ELSE StrV(<<c.s[i]>>)

\* strings.Contains(s, sub)
StringsContains(s, sub) ==
    \E i \in 1..(Len(s) + 1) :
        /\ i + Len(sub) - 1 <= Len(s)
        /\ SubSeq(s, i, i + Len(sub) - 1) = sub

\* "true", "false", or "panic": reflect.ValueOf(container) of a
\* reflect.Value is a struct Value, on which MapKeys panics.
RECURSIVE reflectContains(_, _)
reflectContains(container, exp) ==
    CASE container.kind \in {"ptr", "reader"} ->
            IF reflectIsNil(container) THEN "false"
            ELSE reflectContains(reflectElem(container), exp)
      [] container.kind \in {"slice", "bytes"} ->
            IF \E i \in 1..Len(container.s) : exp = Index(container, i)
            THEN "true" ELSE "false"
      [] container.kind = "map" -> "panic"
      [] OTHER -> "false"

NoError == [isErr |-> FALSE, text |-> <<>>]

Errorf(format, args) == [isErr |-> TRUE, text |-> Sprintf(format, args)]

\* reflectHasKey without the early return for a nil value.
reflectHasKeyNoNilCheck(value, key) ==
    IF value.kind # "map"
    THEN [has |-> FALSE,
          err |-> Errorf(<<"value of type ", "%T", " is not a map">>, <<value>>)]
    ELSE IF key.kind # "string"
    THEN [has |-> FALSE,
          err |-> Errorf(<<"map is keyed by type ", "%T", "; key provided is type ", "%T">>,
                         <<StrV(<<>>), key>>)]
    ELSE [has |-> \E i \in 1..Len(value.k) : StrV(<<value.k[i]>>) = key,
          err |-> NoError]

reflectHasKey(value, key) ==
    IF value.kind = "nil" THEN [has |-> FALSE, err |-> NoError]
    ELSE IF value.kind # "map"
    THEN [has |-> FALSE,
          err |-> Errorf(<<"value of type ", "%T", " is not a map">>, <<value>>)]
    ELSE IF key.kind # "string"
    THEN [has |-> FALSE,
          err |-> Errorf(<<"map is keyed by type ", "%T", "; key provided is type ", "%T">>,
                         <<StrV(<<>>), key>>)]
    ELSE [has |-> \E i \in 1..Len(value.k) : StrV(<<value.k[i]>>) = key,
          err |-> NoError]

----------------------------------------------------------------------------
(* The terminal checks of a ValueAssertion, as functions of the chain      *)
(* (subject v, flag inv) and the arguments.  Each yields the boolean       *)
(* returned ("true", "false", or "panic" when the call panics), the calls  *)
(* made to t.Errorf in order, and the chain's fields afterwards.           *)

Out(ret, sink, v, inv) == [ret |-> ret, sink |-> sink, val |-> v, invert |-> inv]

Nil(v, inv, vals) ==
    LET msg == message(vals) IN
    IF msg.panic THEN Out("panic", <<>>, v, inv)
    ELSE IF ~reflectIsPointer(v)
    THEN Out("false",
             <<errorf(msg, <<"value provided is not a pointer but is ", "%T">>, <<v>>)>>,
             v, inv)
    ELSE IF ~inv /\ ~reflectIsNil(v)
    THEN Out("false",
             <<multiLineErrorf(msg, <<"expected nil; got:", NL, "%+v">>, <<reflectElem(v)>>)>>,
             v, inv)
    ELSE IF inv /\ reflectIsNil(v)
    THEN Out("false", <<errorf(msg, <<"value is nil; expected not nil">>, <<>>)>>, v, inv)
    ELSE Out("true", <<>>, v, inv)

True(v, inv, vals) ==
    LET msg == message(vals) IN
    IF msg.panic THEN Out("panic", <<>>, v, inv)
    ELSE IF v.kind # "bool"
    THEN Out("false", <<errorf(msg, <<"value is not boolean; is ", "%T">>, <<v>>)>>, v, inv)
    ELSE IF ~inv /\ ~v.b
    THEN Out("false", <<errorf(msg, <<"value is false; expected true">>, <<>>)>>, v, inv)
    ELSE IF inv /\ v.b
    THEN Out("false", <<errorf(msg, <<"value is true; expected false">>, <<>>)>>, v, inv)
    ELSE Out("true", <<>>, v, inv)

\* False without the call to Not.
FalseKeepsFlag(v, inv, vals) == True(v, inv, vals)

\* a.Not().True(msgs...): Not sets the flag on the chain itself.
False(v, inv, vals) == True(v, TRUE, vals)

\* reflect.DeepEqual on the modelled values, whose representation is canonical.
DeepEqual(x, y) == x = y

Equals(v, inv, exp, vals) ==
    LET msg == message(vals)
        eq  == DeepEqual(v, exp)
    IN
    IF msg.panic THEN Out("panic", <<>>, v, inv)
    ELSE IF ~inv /\ ~eq
    THEN Out("false",
             <<multiLineErrorf(msg, <<"%+v", NL, NL, "does not equal", NL, NL, "%+v">>,
                               <<v, exp>>)>>,
             v, inv)
    ELSE IF inv /\ eq
    THEN Out("false", <<multiLineErrorf(msg, <<"both values are:", NL, "%+v">>, <<exp>>)>>,
             v, inv)
    ELSE Out("true", <<>>, v, inv)

\* ReadInto with the error of io.ReadAll ignored.
ReadIntoIgnoringError(v) == IF v.kind = "reader" THEN BytesV(v.s) ELSE v

\* io.ReadAll(reader): the subject after the read.
ReadInto(v) == IF v.kind = "reader" /\ ~v.b THEN BytesV(v.s) ELSE v

Contains(v, inv, exp, vals) ==
    LET msg == message(vals)
        v1  == ReadInto(v)
        stringCompared == exp.kind = "string" /\ v1.kind \in {"string", "bytes"}
        container == IF stringCompared THEN StrV(v1.s) ELSE v1
        contains ==
            IF stringCompared
            THEN (IF StringsContains(v1.s, exp.s) THEN "true" ELSE "false")
            ELSE reflectContains(v1, exp)
    IN
    IF msg.panic THEN Out("panic", <<>>, v, inv)
    ELSE IF contains = "panic" THEN Out("panic", <<>>, v1, inv)
    ELSE IF contains = "false" /\ ~inv
    THEN Out("false",
             <<multiLineErrorf(msg, <<"%+v", NL, NL, "does not contain", NL, NL, "%+v">>,
                               <<container, exp>>)>>,
             v1, inv)
    ELSE IF contains = "true" /\ inv
    THEN Out("false",
             <<multiLineErrorf(msg, <<"%+v", NL, NL, "does contain", NL, NL, "%+v">>,
                               <<container, exp>>)>>,
             v1, inv)
    ELSE Out("true", <<>>, v1, inv)

HasKey(v, inv, key, vals) ==
    LET msg == message(vals)
        r   == reflectHasKey(v, key)
        nf  == False(v, TRUE, <<>>)
    IN
    IF msg.panic THEN Out("panic", <<>>, v, inv)
    ELSE IF r.err.isErr
    THEN Out(nf.ret,
             <<errorf(msg, <<"hasKey error: ", "%s">>, <<StrV(r.err.text)>>)>> \o nf.sink,
             v, TRUE)
    ELSE IF ~r.has /\ ~inv
    THEN Out("false",
             <<errorf(msg, <<"%+v", NL, NL, "does not have key", NL, NL, "%+v", NL>>,
                      <<v, key>>)>>,
             v, inv)
    ELSE IF r.has /\ inv
    THEN Out("false",
             <<errorf(msg, <<"%+v", NL, NL, "does have key", NL, NL, "%+v">>, <<v, key>>)>>,
             v, inv)
    ELSE Out("true", <<>>, v, inv)

----------------------------------------------------------------------------
(* The FunctionAssertion's synchronous check.                              *)

\* What the wrapped callable does when run.
Callables == {"returns", "panics"}

PanicValue == StrV(<<"at the disco">>)

\* deferExpectedPanic, run as Panic's deferred call: r is whether recover()
\* returned a value, ret0 the named result when the deferred call starts.
deferExpectedPanic(r, inv, msg, ret0) ==
    LET e1   == IF ~r /\ ~inv THEN <<errorf(msg, <<"did not panic">>, <<>>)>> ELSE <<>>
        ret1 == IF ~r /\ ~inv THEN FALSE ELSE ret0
        e2   == IF r /\ inv
                THEN <<errorf(msg, <<"code paniced with err: ", "%s">>, <<PanicValue>>)>>
                ELSE <<>>
        ret2 == IF r /\ inv THEN FALSE ELSE ret1
        ret3 == TRUE
    IN  [ret |-> IF ret3 THEN "true" ELSE "false", sink |-> e1 \o e2]

\* Panic: the callable runs under the deferred recovery.  A callable that
\* returns leaves the wrapper's true in ret; one that panics leaves ret zero.
Panic(f, inv, vals) ==
    LET msg == message(vals)
        d   == deferExpectedPanic(f = "panics", inv, msg, f = "returns")
    IN  IF msg.panic THEN Out("panic", <<>>, NoVal, inv)
        ELSE Out(d.ret, d.sink, NoVal, inv)

Duration == V("duration", FALSE, <<"1ms">>, <<>>, "none")

\* promise.Timeout, the case that received the wrapper's true from done.
TimeoutReceived(inv, msg, d) ==
    IF inv
    THEN [ret |-> "false",
          sink |-> <<errorf(msg, <<"function didn't meet the minimum duration of ", "%s">>,
                            <<d>>)>>]
    ELSE [ret |-> "true", sink |-> <<>>]

\* TimeoutElapsed without its else branch: ret stays the zero value.
TimeoutElapsedNoElse(inv, msg, d) ==
    IF ~inv
    THEN [ret |-> "false",
          sink |-> <<errorf(msg, <<"function reached timeout of ", "%s">>, <<d>>)>>]
    ELSE [ret |-> "false", sink |-> <<>>]

\* promise.Timeout, the case that received from time.After(d): ret is still
\* the zero value unless the chain is inverted.
TimeoutElapsed(inv, msg, d) ==
    IF ~inv
    THEN [ret |-> "false",
          sink |-> <<errorf(msg, <<"function reached timeout of ", "%s">>, <<d>>)>>]
    ELSE [ret |-> "true", sink |-> <<>>]

----------------------------------------------------------------------------
(* State.                                                                  *)
(*   chain   "value": a ValueAssertion; "fn": a FunctionAssertion          *)
(*   given   the value the chain was constructed with                      *)
(*   val     ValueAssertion.val                                            *)
(*   invert  assertion.invert                                              *)
(*   fn      FunctionAssertion.fn: what the wrapped callable does          *)
(*   last    the most recent call on the chain: its name, arguments, the   *)
(*           chain's fields when it was called, what it returned and the   *)
(*           calls it made to t.Errorf                                     *)
(*   cpc     where the caller of a function chain is                       *)
(*   gpc     where the goroutine started by Promise is                     *)
(*   log     what the caller that holds a promise and the promised         *)
(*           callable have done, in the order they did it                  *)
(*   won     which case of Timeout's select was taken last                 *)

VARIABLES chain, given, val, invert, fn, last, cpc, gpc, log, won

vars == <<chain, given, val, invert, fn, last, cpc, gpc, log, won>>

Call(op, arg, vals, preVal, preInvert, ret, sink) ==
    [op |-> op, arg |-> arg, vals |-> vals, preVal |-> preVal, preInvert |-> preInvert,
     ret |-> ret, sink |-> sink]

NoCall == Call("none", NoVal, <<>>, NoVal, FALSE, "none", <<>>)

\* The chain made by the package's constructor for a value v.
NewValueAssertion(v) ==
    /\ chain = "value" /\ given = v /\ val = v /\ invert = FALSE
    /\ fn = "none" /\ last = NoCall
    /\ cpc = "none" /\ gpc = "none" /\ log = <<>> /\ won = "none"

\* The chain made by the package's constructor for a callable f.
NewFunctionAssertion(f) ==
    /\ chain = "fn" /\ given = NoVal /\ val = NoVal /\ invert = FALSE
    /\ fn = f /\ last = NoCall
    /\ cpc = "chain" /\ gpc = "none" /\ log = <<>> /\ won = "none"

Init ==
    \/ \E v \in Subjects : NewValueAssertion(v)
    \/ \E f \in Callables : NewFunctionAssertion(f)

\* The caller of a function chain can make a call: it is not blocked in
\* Wait or Timeout and the process has not died.
CallerFree == cpc \in {"chain", "promised", "returned"}

\* Apply a ValueAssertion terminal check whose outcome is r.
Apply(op, arg, vals, r) ==
    /\ chain = "value"
    /\ val' = r.val
    /\ invert' = r.invert
    /\ last' = Call(op, arg, vals, val, invert, r.ret, r.sink)
    /\ UNCHANGED <<chain, given, fn, cpc, gpc, log, won>>

\* ValueAssertion.Not, FunctionAssertion.Not, promise.Not
Not ==
    /\ chain = "value" \/ CallerFree
    /\ invert' = TRUE
    /\ last' = Call("Not", NoVal, <<>>, val, invert, "none", <<>>)
    /\ UNCHANGED <<chain, given, val, fn, cpc, gpc, log, won>>

DoNil == \E vals \in TestMsgs : Apply("Nil", NoVal, vals, Nil(val, invert, vals))

DoTrue == \E vals \in TestMsgs : Apply("True", NoVal, vals, True(val, invert, vals))

DoFalse ==
    \E vals \in TestMsgs :
        Apply("False", NoVal, vals, False(val, invert, vals))

DoEquals ==
    \E exp \in Probes \cup {val}, vals \in TestMsgs :
        Apply("Equals", exp, vals, Equals(val, invert, exp, vals))

DoContains ==
    \E exp \in Probes, vals \in TestMsgs :
        Apply("Contains", exp, vals, Contains(val, invert, exp, vals))

DoHasKey ==
    \E key \in Probes, vals \in TestMsgs :
        Apply("HasKey", key, vals, HasKey(val, invert, key, vals))

\* FunctionAssertion.Panic / Panics: the callable runs in the caller's thread.
DoPanic ==
    \E vals \in TestMsgs :
        LET r == Panic(fn, invert, vals) IN
        /\ chain = "fn" /\ cpc = "chain"
        /\ last' = Call("Panic", NoVal, vals, NoVal, invert, r.ret, r.sink)
        /\ UNCHANGED <<chain, given, val, invert, fn, cpc, gpc, log, won>>

\* FunctionAssertion.Promise: makes the channel and starts the goroutine.
Promise ==
    /\ chain = "fn" /\ cpc = "chain"
    /\ cpc' = "promised"
    /\ gpc' = "start"
    /\ last' = Call("Promise", NoVal, <<>>, NoVal, invert, "none", <<>>)
    /\ UNCHANGED <<chain, given, val, invert, fn, log, won>>

\* The goroutine runs a.fn().  A callable that returns leaves the goroutine
\* at its send on the unbuffered channel; one that panics is not recovered
\* and ends the process.
GoRun ==
    /\ gpc = "start"
    /\ log' = Append(log, "executing")
    /\ IF fn = "returns"
       THEN gpc' = "send" /\ cpc' = cpc
       ELSE gpc' = "crashed" /\ cpc' = "crashed"
    /\ UNCHANGED <<chain, given, val, invert, fn, last, won>>

\* A step of the caller that holds a promise, such as printing a line.
CallerStep ==
    /\ cpc = "promised"
    /\ Len(SelectSeq(log, LAMBDA e : e = "step")) < MaxCallerSteps
    /\ log' = Append(log, "step")
    /\ UNCHANGED <<chain, given, val, invert, fn, last, cpc, gpc, won>>

\* The caller makes no further call on the chain and drops the handle, as
\* after a statement that ends in Promise().Timeout(d).
CallerDone ==
    /\ cpc \in {"promised", "returned"}
    /\ cpc' = "finished"
    /\ UNCHANGED <<chain, given, val, invert, fn, last, gpc, log, won>>

\* promise.Wait is called: the caller blocks in the receive.
WaitCall ==
    /\ cpc \in {"promised", "returned"}
    /\ cpc' = "waiting"
    /\ last' = Call("Wait", NoVal, <<>>, NoVal, invert, "none", <<>>)
    /\ UNCHANGED <<chain, given, val, invert, fn, gpc, log, won>>

\* The receive of Wait meets the goroutine's send; Wait returns the value.
WaitReturn ==
    /\ cpc = "waiting" /\ gpc = "send"
    /\ gpc' = "done"
    /\ cpc' = "returned"
    /\ last' = [last EXCEPT !.ret = "true"]
    /\ log' = Append(log, "waited")
    /\ UNCHANGED <<chain, given, val, invert, fn, won>>

\* promise.Timeout is called: the message is made, then the caller blocks
\* in the select.
TimeoutCall ==
    \E vals \in TestMsgs :
        /\ cpc \in {"promised", "returned"}
        /\ IF message(vals).panic
           THEN /\ last' = Call("Timeout", Duration, vals, NoVal, invert, "panic", <<>>)
                /\ cpc' = "returned"
           ELSE /\ last' = Call("Timeout", Duration, vals, NoVal, invert, "none", <<>>)
                /\ cpc' = "selecting"
        /\ won' = "none"
        /\ UNCHANGED <<chain, given, val, invert, fn, gpc, log>>

\* select takes the receive from done.
TimeoutCompletion ==
    LET r == TimeoutReceived(invert, message(last.vals), last.arg) IN
    /\ cpc = "selecting" /\ gpc = "send"
    /\ gpc' = "done"
    /\ cpc' = "returned"
    /\ won' = "completion"
    /\ last' = [last EXCEPT !.ret = r.ret, !.sink = r.sink]
    /\ UNCHANGED <<chain, given, val, invert, fn, log>>

\* select takes the receive from time.After(d).
TimeoutTimer ==
    LET r == TimeoutElapsed(invert, message(last.vals), last.arg) IN
    /\ cpc = "selecting"
    /\ cpc' = "returned"
    /\ won' = "timer"
    /\ last' = [last EXCEPT !.ret = r.ret, !.sink = r.sink]
    /\ UNCHANGED <<chain, given, val, invert, fn, gpc, log>>

Next ==
    \/ Not
    \/ DoNil
    \/ DoTrue
    \/ DoFalse
    \/ DoEquals
    \/ DoContains
    \/ DoHasKey
    \/ DoPanic
    \/ Promise
    \/ GoRun
    \/ CallerStep
    \/ CallerDone
    \/ WaitCall
    \/ WaitReturn
    \/ TimeoutCall
    \/ TimeoutCompletion
    \/ TimeoutTimer

Spec == Init /\ [][Next]_vars

----------------------------------------------------------------------------
(* Properties.                                                             *)

Mentions(text, tag) == \E i \in DOMAIN text : text[i] = tag

\* The last call's trailing arguments are a format string and its arguments.
WellFormed == ~message(last.vals).panic

\* The last call reported exactly one failure, whose text holds tag.
ReportedOnce(tag) == Len(last.sink) = 1 /\ Mentions(last.sink[1].text, tag)

\* C1: Panic() recovers the callable's panic and returns true iff the
\* callable panicked (not inverted) or did not panic (inverted); in the
\* two failing cases it reports once and returns false.
C1_PanicResult ==
    (last.op = "Panic" /\ WellFormed) =>
        /\ last.ret # "panic"
        /\ IF (fn = "panics") # last.preInvert
           THEN last.ret = "true" /\ last.sink = <<>>
           ELSE /\ last.ret = "false"
                /\ ReportedOnce(IF last.preInvert THEN "code paniced with err: "
                                 ELSE "did not panic")

\* C2: Timeout(d) has four outcomes: completion first gives true with no
\* report when not inverted and false with "didn't meet the minimum
\* duration" when inverted; timer first gives false with "reached timeout"
\* when not inverted and true with no report when inverted.
C2_TimeoutOutcomes ==
    (last.op = "Timeout" /\ cpc = "returned" /\ WellFormed) =>
        /\ won \in {"completion", "timer"}
        /\ (won = "completion" /\ ~last.preInvert) =>
               (last.ret = "true" /\ last.sink = <<>>)
        /\ (won = "completion" /\ last.preInvert) =>
               (last.ret = "false"
                /\ ReportedOnce("function didn't meet the minimum duration of "))
        /\ (won = "timer" /\ ~last.preInvert) =>
               (last.ret = "false" /\ ReportedOnce("function reached timeout of "))
        /\ (won = "timer" /\ last.preInvert) =>
               (last.ret = "true" /\ last.sink = <<>>)

C2_Witness ==
    /\ last.op = "Timeout" /\ cpc = "returned"
    /\ won = "timer" /\ last.preInvert /\ last.ret = "true"
    /\ gpc = "send"

\* A nil subject: the nil interface value or a nil pointer.
IsNilSubject(v) == v.kind = "nil" \/ (v.kind = "ptr" /\ v.b)

\* C3: on every nil subject, nil pointer or nil interface value, Nil()
\* returns true without a report and Not().Nil() returns false after
\* reporting "value is nil; expected not nil".
C3_NilOnNilSubject ==
    (last.op = "Nil" /\ WellFormed /\ IsNilSubject(last.preVal)) =>
        IF ~last.preInvert
        THEN last.ret = "true" /\ last.sink = <<>>
        ELSE last.ret = "false" /\ ReportedOnce("value is nil; expected not nil")

\* The containment rule: substring for string and byte subjects (a single
\* byte is found among the bytes), membership by equality for sequences,
\* membership among the values for mappings.
Found(S, e) ==
    CASE S.kind = "string" -> e.kind = "string" /\ StringsContains(S.s, e.s)
      [] S.kind = "bytes"  ->
            \/ e.kind = "string" /\ StringsContains(S.s, e.s)
            \/ e.kind = "uint8" /\ \E i \in 1..Len(S.s) : S.s[i] = e.s[1]
      [] S.kind \in {"slice", "map"} ->
            e.kind = "string" /\ \E i \in 1..Len(S.s) : <<S.s[i]>> = e.s
      [] OTHER -> FALSE

\* C4: on a string, byte sequence, sequence or mapping, Contains(e)
\* returns true iff e is found by the containment rule when not inverted,
\* the opposite when inverted, and never panics.
C4_ContainsResult ==
    (/\ last.op = "Contains" /\ WellFormed
     /\ last.preVal.kind \in {"string", "bytes", "slice", "map"}) =>
        last.ret = IF Found(last.preVal, last.arg) # last.preInvert THEN "true" ELSE "false"

\* C5: on a boolean subject b, True() returns true iff b is true (not
\* inverted) or false (inverted); False() returns and reports what
\* Not().True() does, whatever the flag was: true iff b is false, else one
\* report "value is true; expected false", and the flag is left set.
C5_TrueFalse ==
    (last.op \in {"True", "False"} /\ WellFormed /\ last.preVal.kind = "bool") =>
        LET inv == last.op = "False" \/ last.preInvert IN
        /\ last.ret = IF last.preVal.b # inv THEN "true" ELSE "false"
        /\ last.ret = "true" => last.sink = <<>>
        /\ last.ret = "false" =>
               ReportedOnce(IF inv THEN "value is true; expected false"
                            ELSE "value is false; expected true")
        /\ invert = inv

C5_Witness ==
    /\ last.op = "False" /\ ~last.preInvert /\ WellFormed
    /\ last.preVal = BoolV(TRUE) /\ last.ret = "false"

\* C6: HasKey on a subject that is not a mapping, or on a mapping whose
\* key type differs from the key's, reports "hasKey error: ..." and
\* returns false, whatever the inversion flag.
C6_HasKeyMismatch ==
    (/\ last.op = "HasKey" /\ WellFormed
     /\ \/ last.preVal.kind \notin {"map", "nil"}
        \/ last.preVal.kind = "map" /\ last.arg.kind # "string") =>
        /\ last.ret = "false"
        /\ Len(last.sink) >= 1
        /\ Mentions(last.sink[1].text, "hasKey error: ")

\* C7 as claimed: HasKey on a nil subject reports "hasKey error: ..." and
\* returns false for every value of the inversion flag, outside the
\* "does not have key" framing.
C7_NilSubjectIsError ==
    (last.op = "HasKey" /\ WellFormed /\ last.preVal.kind = "nil") =>
        /\ last.ret = "false"
        /\ Len(last.sink) >= 1
        /\ Mentions(last.sink[1].text, "hasKey error: ")
        /\ \A i \in DOMAIN last.sink : ~Mentions(last.sink[i].text, "does not have key")

\* C7 as amended: HasKey on a nil subject reports no "hasKey error"; it
\* is an ordinary absent key: not inverted it reports "does not have key"
\* once and returns false, inverted it returns true without a report.
C7_NilSubjectIsAbsentKey ==
    (last.op = "HasKey" /\ WellFormed /\ last.preVal.kind = "nil") =>
        /\ \A i \in DOMAIN last.sink : ~Mentions(last.sink[i].text, "hasKey error: ")
        /\ IF ~last.preInvert
           THEN last.ret = "false" /\ ReportedOnce("does not have key")
           ELSE last.ret = "true" /\ last.sink = <<>>
        /\ invert = last.preInvert

C7_Witness ==
    /\ last.op = "HasKey" /\ WellFormed /\ last.preVal.kind = "nil"
    /\ last.preInvert /\ last.ret = "true"

\* C8: every rendered diagnostic starts with the prefix [file:line]; it is
\* the compact form (prefix, space, assertion message) iff there is no
\* test message and the assertion message is not multiline; otherwise
\* prefix, newline, the test message and a newline only if there is a
\* test message, then the assertion message.
C8_RenderedForm ==
    \A i \in DOMAIN last.sink :
        LET m        == last.sink[i].m
            text     == last.sink[i].text
            p        == m.assertionPrefix
            supplied == m.testMessage # <<>>
            body     == Sprintf(m.assertionMessage, m.assertionArgs)
            compact  == p \o <<" ">> \o body
            expanded == p \o <<NL>>
                          \o (IF supplied
                              THEN Sprintf(m.testMessage, m.testArgs) \o <<NL>>
                              ELSE <<>>)
                          \o body
        IN  /\ Len(p) = 5 /\ p[1] = "[" /\ p[3] = ":" /\ p[5] = "]"
            /\ SubSeq(text, 1, Len(p)) = p
            /\ (text = compact) <=> (~supplied /\ ~m.assertionMultiline)
            /\ (text # compact) => (text = expanded)

C8_Witness ==
    /\ last.op = "True" /\ Len(last.vals) = 2 /\ Len(last.sink) = 1
    /\ ~last.sink[1].m.assertionMultiline
    /\ last.sink[1].text[6] = NL

\* C9: the promised callable runs only once the caller has called Wait():
\* every step the caller takes after Promise() comes before any effect of
\* the callable.
C9_CallableAfterCallerSteps ==
    \A i, j \in DOMAIN log :
        (log[i] = "executing" /\ log[j] = "step") => j < i

\* C10 as claimed: the stored subject of a value chain is always the value
\* the chain was constructed with.
C10_SubjectFixed == chain = "value" => val = given

\* C10 as amended: the stored subject changes only when Contains is
\* called on a readable stream whose read succeeds, and then becomes the
\* bytes read; so it is always the constructed value or those bytes.
C10_SubjectFixedUnlessRead ==
    /\ [](chain = "value" =>
            \/ val = given
            \/ given.kind = "reader" /\ ~given.b /\ val = BytesV(given.s))
    /\ [][chain = "value" =>
            \/ val' = val
            \/ /\ last'.op = "Contains"
               /\ val.kind = "reader" /\ ~val.b
               /\ val' = BytesV(val.s)]_vars

C10_Witness ==
    /\ chain = "value" /\ last.op = "Contains"
    /\ given.kind = "reader" /\ given.s # <<>> /\ val = BytesV(given.s)

\* C11: every terminal check of a value chain and the synchronous Panic
\* check calls the failure sink at most once per invocation, on every path.
C11_AtMostOneReport ==
    (last.op \in {"Nil", "True", "False", "Equals", "Contains", "HasKey", "Panic"}) =>
        Len(last.sink) <= 1

\* C12: once the wrapped callable has returned, the goroutine started by
\* Promise() performs its one send and ends, also when the timer won a
\* Timeout and no further Wait or Timeout is called: after such a Timeout
\* it is never left blocked at its send with the caller making no more
\* calls.
C12_GoroutineCompletes ==
    (chain = "fn" /\ cpc = "finished" /\ won = "timer") => gpc # "send"

====
